---------------------------- MODULE Spec2Model ----------------------------
(***************************************************************************)
(* Model of Code/crowdbike_nonGUI.py: the module-level start-up, the       *)
(* sampling loop main(), the SIGTERM handler exit_program() and the        *)
(* background GPS thread.                                                  *)
(*                                                                         *)
(* Numbers are fixed point: temperatures, humidities and calibration       *)
(* coefficients are in thousandths (21.3 degC = 21300, a1 = 1.0 = 1000),   *)
(* speeds written to the file are in hundredths of km/h, times in seconds. *)
(* The module FUN (GPS, pm_sensor, read_dht22, sat_vappressure,            *)
(* vappressure) is not part of the sources: what is needed of it is        *)
(* modelled from the specification.                                        *)
(***************************************************************************)
EXTENDS Integers, Sequences, FiniteSets, TLC

VARIABLES
    pc,             \* position of the main thread
    cfg,            \* config.json / calibration.json values, fixed at start
    prev_overrun,   \* whether the body of the cycle before took longer than
                    \* the period: "yes", "no", or "untracked" all along
    counter,        \* global counter
    disk,           \* rows of the log file that reached the file
    gf,             \* module-level name f: "unbound" or "closed"
    f,              \* main()'s local f: [state, buf]
    readings,       \* main()'s local readings: [kind, humidity, temperature]
    loc,            \* the other locals of main() of the current iteration
    gps,            \* attributes of gpsp written by the GPS thread
    gps_thread,     \* "not_started", "running", "exited"
    gps_ctl,        \* [running, stop_requested]: what exit_program sets
    fixes,          \* number of Fix values published so far
    handler,        \* disposition of SIGTERM: "default" or "exit_program"
    hpc,            \* exit_program: "idle", "h_join", "h_exit", "done"
    proc,           \* "running", "exited" or "killed"
    exit_code,      \* exit status once proc # "running"
    exc,            \* exception that ended main(), "none" while there is none
    iter,           \* number of loop iterations started
    obs             \* what this iteration observed: has_fix, the Fix at that
                    \* moment, whether a sensor read raised, the calls of
                    \* read_pm, the rows of the file at its start; and the
                    \* indices of the iterations so far that saw no fix

vars == <<pc, cfg, prev_overrun, counter, disk, gf, f, readings, loc, gps, gps_thread,
          gps_ctl, fixes, handler, hpc, proc, exit_code, exc, iter, obs>>

-----------------------------------------------------------------------------
(* Bounds of the model *)

MaxCounter == 3     \* iterations of the loop that are explored
MaxFix == 3         \* Fix values the GPS thread publishes
MaxElapsed == 7     \* longest cycle body, in seconds

(* np.nan, kept apart from every value a sensor or a calibration yields *)
NaN == -999999

IsNaN(x) == x = NaN

-----------------------------------------------------------------------------
(* Inputs *)

SamplingRates == {5}
HumidityInputs == {99000}
TemperatureInputs == {21300}
HumCalA1 == {900}
HumCalA0 == {0}
TempCalA1 == {1000}
TempCalA0 == {0}
PMInputs == {[PM2_5 |-> 7, PM10 |-> 12]}

columnnames == <<"id", "record", "raspberry_time", "gps_time", "altitude",
                 "latitude", "longitude", "speed", "temperature",
                 "temperature_raw", "rel_humidity", "rel_humidity_raw",
                 "vapour_pressure", "pm10", "pm2_5", "mac">>

Header == [kind |-> "header", cols |-> columnnames]

-----------------------------------------------------------------------------
(* Arithmetic of the record fields *)

(* round() of the fraction n/d, d > 0, to the nearest integer, ties to even *)
RoundHalfEven(n, d) ==
    LET q == n \div d
        r == n % d
    IN  IF 2 * r < d THEN q
        ELSE IF 2 * r > d THEN q + 1
        ELSE IF q % 2 = 0 THEN q ELSE q + 1

(* round(raw / a1 - a0, 3), all three in thousandths *)
Calibrate(raw, a1, a0) ==
    IF IsNaN(raw) THEN NaN ELSE RoundHalfEven(raw * 1000 - a0 * a1, a1)

(* round(raw, 5) of a value in thousandths: to 1e-5 units and back *)
RoundRaw(raw) ==
    IF IsNaN(raw) THEN NaN ELSE RoundHalfEven(raw * 100, 1) \div 100

(* round(gpsp.speed * 1.852, 2): knots to hundredths of km/h *)
SpeedKph(knots) ==
    IF IsNaN(knots) THEN NaN ELSE RoundHalfEven(knots * 1852, 10)

(* vappressure(rh, sat_vappressure(t)), rounded: kept as the term of its   *)
(* two arguments, nan when one of them is nan                              *)
Vappress(rh, t) ==
    IF IsNaN(rh) \/ IsNaN(t) THEN <<NaN, NaN>> ELSE <<rh, t>>

(* if dht22_humidity > 100: dht22_humidity = 100 *)
ClampHumidity(h) == IF h > 100000 THEN 100000 ELSE h

(* the clamp of lines 217-218 left out *)
Offset_unclamped(runtime, rate) == runtime

(* if offset > sampling_rate: offset = sampling_rate *)
Offset(runtime, rate) == IF runtime > rate THEN rate ELSE runtime

(* the whole period slept, the time of the body not taken off *)
SleepArg_whole(runtime, rate) == rate

(* the argument of time.sleep *)
SleepArg(runtime, rate) == rate - Offset(runtime, rate)

(* the cycle body run whatever has_fix is *)
EntersBody_always(has_fix) == TRUE

(* if gpsp.has_fix: *)
EntersBody(has_fix) == has_fix

(* the increment left out *)
NextCounter_stuck(c, has_fix) == c

(* the increment made only by the cycles that had a fix *)
NextCounter_emitting(c, has_fix) == IF has_fix THEN c + 1 ELSE c

(* counter += 1, after the if block: whether or not the cycle had a fix *)
NextCounter(c, has_fix) == c + 1

-----------------------------------------------------------------------------
(* The GPS thread's attributes *)

NoFix == [has_fix |-> FALSE, timestamp |-> NaN, alt |-> NaN,
          latitude |-> NaN, longitude |-> NaN, speed |-> NaN]

(* the n-th Fix the receiver delivers: every field differs from Fix to Fix *)
Fix(n, hf) == [has_fix |-> hf, timestamp |-> 1000 + n, alt |-> 100 + n,
               latitude |-> 5100 + n, longitude |-> 700 + n, speed |-> 10 + n]

(* the position fields of a row written from one Fix *)
PositionOf(fx) == [gps_time |-> fx.timestamp, altitude |-> fx.alt,
                   latitude |-> fx.latitude, longitude |-> fx.longitude,
                   speed |-> SpeedKph(fx.speed)]

PositionIn(row) == [gps_time |-> row.gps_time, altitude |-> row.altitude,
                    latitude |-> row.latitude, longitude |-> row.longitude,
                    speed |-> row.speed]

-----------------------------------------------------------------------------
(* Initial state: the interpreter is about to run line 94 *)

NoLocals == [dht22_humidity |-> NaN, dht22_temperature |-> NaN,
             dht22_temperature_raw |-> NaN, dht22_temperature_calib |-> NaN,
             dht22_humidity_raw |-> NaN, dht22_humidity_calib |-> NaN,
             dht22_vappress |-> <<NaN, NaN>>, pm2_5 |-> NaN, pm10 |-> NaN,
             gps_time |-> NaN, gps_altitude |-> NaN, gps_latitude |-> NaN,
             gps_longitude |-> NaN, gps_speed |-> NaN,
             runtime |-> 0, offset |-> 0, sleep_arg |-> 0]

NoObs == [has_fix |-> FALSE, fix |-> NoFix, dht_raised |-> FALSE,
          pm_raised |-> FALSE, pm_calls |-> 0, rows |-> 0,
          nofix_iters |-> {}]

InitCommon ==
    /\ pc = "bootstrap"
    /\ cfg \in [pm_status : BOOLEAN, sampling_rate : SamplingRates,
                temperature_cal_a1 : TempCalA1, temperature_cal_a0 : TempCalA0,
                hum_cal_a1 : HumCalA1, hum_cal_a0 : HumCalA0]
    /\ counter = 1
    /\ gf = "unbound"
    /\ f = [state |-> "unbound", buf |-> <<>>]
    /\ readings = [kind |-> "unbound", humidity |-> NaN, temperature |-> NaN]
    /\ loc = NoLocals
    /\ gps = NoFix
    /\ gps_thread = "not_started"
    /\ gps_ctl = [running |-> TRUE, stop_requested |-> FALSE]
    /\ fixes = 0
    /\ handler = "default"
    /\ hpc = "idle"
    /\ proc = "running"
    /\ exit_code = 0
    /\ exc = "none"
    /\ iter = 0
    /\ obs = NoObs

(* the log file does not exist yet, or it does and holds the header *)
Init ==
    /\ InitCommon
    /\ disk \in {<<>>, <<Header>>}
    /\ prev_overrun = "untracked"

(* the same program started without a log file, the overrun of the cycle   *)
(* before being remembered from one cycle to the next                      *)
InitHistory ==
    /\ InitCommon
    /\ disk = <<>>
    /\ prev_overrun = "no"

(* the main thread runs its own code: no handler is running, nothing raised *)
MainRuns == proc = "running" /\ hpc = "idle" /\ exc = "none"

-----------------------------------------------------------------------------
(* Module level, lines 94-123 and 224-227 *)

(* the header written whether or not the file exists *)
Bootstrap_always ==
    /\ MainRuns /\ pc = "bootstrap"
    /\ disk' = Append(disk, Header) /\ gf' = "closed"
    /\ pc' = "start_gps"
    /\ UNCHANGED <<cfg, prev_overrun, counter, f, readings, loc, gps, gps_thread, gps_ctl,
                   fixes, handler, hpc, proc, exit_code, exc, iter, obs>>

(* if not os.path.exists(logfile): open, writeheader, close *)
Bootstrap ==
    /\ MainRuns /\ pc = "bootstrap"
    /\ IF disk = <<>>
       THEN disk' = <<Header>> /\ gf' = "closed"
       ELSE UNCHANGED <<disk, gf>>
    /\ pc' = "start_gps"
    /\ UNCHANGED <<cfg, prev_overrun, counter, f, readings, loc, gps, gps_thread, gps_ctl,
                   fixes, handler, hpc, proc, exit_code, exc, iter, obs>>

(* gpsp = GPS(); gpsp.start() *)
StartGps ==
    /\ MainRuns /\ pc = "start_gps"
    /\ gps_thread' = "running"
    /\ pc' = "init_sensors"
    /\ UNCHANGED <<cfg, prev_overrun, counter, disk, gf, f, readings, loc, gps, gps_ctl,
                   fixes, handler, hpc, proc, exit_code, exc, iter, obs>>

(* dht22_sensor = adafruit_dht.DHT22(board.D4); nova_pm = pm_sensor(...) *)
InitSensors ==
    /\ MainRuns /\ pc = "init_sensors"
    /\ pc' = "install_handler"
    /\ UNCHANGED <<cfg, prev_overrun, counter, disk, gf, f, readings, loc, gps, gps_thread,
                   gps_ctl, fixes, handler, hpc, proc, exit_code, exc, iter,
                   obs>>

(* signal.signal(signal.SIGTERM, exit_program), then main() is called *)
InstallHandler ==
    /\ MainRuns /\ pc = "install_handler"
    /\ handler' = "exit_program"
    /\ pc' = "loop_top"
    /\ UNCHANGED <<cfg, prev_overrun, counter, disk, gf, f, readings, loc, gps, gps_thread,
                   gps_ctl, fixes, hpc, proc, exit_code, exc, iter, obs>>

-----------------------------------------------------------------------------
(* main(), lines 126-221 *)

(* now = utcnow(); if gpsp.has_fix: f = open(logfile, 'a'); writer = ... *)
LoopTop ==
    /\ MainRuns /\ pc = "loop_top"
    /\ counter <= MaxCounter
    /\ iter' = iter + 1
    /\ obs' = [has_fix |-> gps.has_fix, fix |-> gps, dht_raised |-> FALSE,
               pm_raised |-> FALSE, pm_calls |-> 0, rows |-> Len(disk),
               nofix_iters |-> IF gps.has_fix THEN obs.nofix_iters
                               ELSE obs.nofix_iters \cup {iter + 1}]
    /\ IF EntersBody(gps.has_fix)
       THEN f' = [state |-> "open", buf |-> <<>>] /\ pc' = "read_dht"
       ELSE f' = f /\ pc' = "finish"
    /\ UNCHANGED <<cfg, prev_overrun, counter, disk, gf, readings, loc, gps, gps_thread,
                   gps_ctl, fixes, handler, hpc, proc, exit_code, exc>>

(* lines 141-142 with the local readings as it is: the name is unbound     *)
(* before the first assignment, and holds the row of line 190 afterwards,  *)
(* which has no key 'humidity'                                             *)
UnpackError(r) ==
    CASE r.kind = "unbound" -> "UnboundLocalError"
      [] r.kind = "record" -> "KeyError"
      [] OTHER -> "none"

(* try: readings = read_dht22(dht22_sensor) / except Exception: nan, nan;  *)
(* dht22_humidity = readings['humidity']; dht22_temperature = ...          *)
ReadDht ==
    /\ MainRuns /\ pc = "read_dht"
    /\ \/ \E h \in HumidityInputs, t \in TemperatureInputs :
            /\ readings' = [kind |-> "dht", humidity |-> h, temperature |-> t]
            /\ loc' = [loc EXCEPT !.dht22_humidity = h, !.dht22_temperature = t]
            /\ pc' = "calibrate"
            /\ UNCHANGED <<exc, obs>>
       \/ /\ obs' = [obs EXCEPT !.dht_raised = TRUE]
          /\ readings' = readings
          /\ IF UnpackError(readings) = "none"
             THEN /\ loc' = [loc EXCEPT !.dht22_humidity = readings.humidity,
                                        !.dht22_temperature = readings.temperature]
                  /\ pc' = "calibrate"
                  /\ exc' = exc
             ELSE /\ loc' = [loc EXCEPT !.dht22_humidity = NaN,
                                        !.dht22_temperature = NaN]
                  /\ pc' = "crashed"
                  /\ exc' = UnpackError(readings)
    /\ UNCHANGED <<cfg, prev_overrun, counter, disk, gf, f, gps, gps_thread, gps_ctl, fixes,
                   handler, hpc, proc, exit_code, iter>>

(* lines 145-165 *)
CalibrateStep ==
    /\ MainRuns /\ pc = "calibrate"
    /\ LET t == Calibrate(loc.dht22_temperature, cfg.temperature_cal_a1,
                          cfg.temperature_cal_a0)
           h == Calibrate(loc.dht22_humidity, cfg.hum_cal_a1, cfg.hum_cal_a0)
       IN  loc' = [loc EXCEPT
                     !.dht22_temperature_raw = RoundRaw(loc.dht22_temperature),
                     !.dht22_temperature_calib = t,
                     !.dht22_humidity_raw = RoundRaw(loc.dht22_humidity),
                     !.dht22_humidity_calib = h,
                     !.dht22_vappress = Vappress(h, t)]
    /\ pc' = "read_pm"
    /\ UNCHANGED <<cfg, prev_overrun, counter, disk, gf, f, readings, gps, gps_thread,
                   gps_ctl, fixes, handler, hpc, proc, exit_code, exc, iter,
                   obs>>

(* the particulate sensor read whatever the configuration says *)
PmEnabled_always(status) == TRUE

(* if pm_status is True: *)
PmEnabled(status) == status = TRUE

(* if pm_status is True: pm = nova_pm.read_pm() ... else nan;              *)
(* if dht22_humidity > 100: dht22_humidity = 100                           *)
ReadPm ==
    /\ MainRuns /\ pc = "read_pm"
    /\ IF PmEnabled(cfg.pm_status)
       THEN \/ \E pm \in PMInputs :
                 /\ loc' = [loc EXCEPT !.pm2_5 = pm.PM2_5, !.pm10 = pm.PM10,
                              !.dht22_humidity = ClampHumidity(loc.dht22_humidity)]
                 /\ obs' = [obs EXCEPT !.pm_calls = @ + 1]
                 /\ pc' = "gps_time"
                 /\ exc' = exc
            \/ /\ obs' = [obs EXCEPT !.pm_raised = TRUE, !.pm_calls = @ + 1]
               /\ exc' = "ReadPmError"
               /\ pc' = "crashed"
               /\ loc' = loc
       ELSE /\ loc' = [loc EXCEPT !.pm2_5 = NaN, !.pm10 = NaN,
                         !.dht22_humidity = ClampHumidity(loc.dht22_humidity)]
            /\ pc' = "gps_time"
            /\ UNCHANGED <<exc, obs>>
    /\ UNCHANGED <<cfg, prev_overrun, counter, disk, gf, f, readings, gps, gps_thread,
                   gps_ctl, fixes, handler, hpc, proc, exit_code, iter>>

(* lines 180-184: five reads of gpsp's attributes, one after the other *)
ReadGpsTime ==
    /\ MainRuns /\ pc = "gps_time"
    /\ loc' = [loc EXCEPT !.gps_time = gps.timestamp]
    /\ pc' = "gps_altitude"
    /\ UNCHANGED <<cfg, prev_overrun, counter, disk, gf, f, readings, gps, gps_thread,
                   gps_ctl, fixes, handler, hpc, proc, exit_code, exc, iter,
                   obs>>

ReadGpsAltitude ==
    /\ MainRuns /\ pc = "gps_altitude"
    /\ loc' = [loc EXCEPT !.gps_altitude = gps.alt]
    /\ pc' = "gps_latitude"
    /\ UNCHANGED <<cfg, prev_overrun, counter, disk, gf, f, readings, gps, gps_thread,
                   gps_ctl, fixes, handler, hpc, proc, exit_code, exc, iter,
                   obs>>

ReadGpsLatitude ==
    /\ MainRuns /\ pc = "gps_latitude"
    /\ loc' = [loc EXCEPT !.gps_latitude = gps.latitude]
    /\ pc' = "gps_longitude"
    /\ UNCHANGED <<cfg, prev_overrun, counter, disk, gf, f, readings, gps, gps_thread,
                   gps_ctl, fixes, handler, hpc, proc, exit_code, exc, iter,
                   obs>>

ReadGpsLongitude ==
    /\ MainRuns /\ pc = "gps_longitude"
    /\ loc' = [loc EXCEPT !.gps_longitude = gps.longitude]
    /\ pc' = "gps_speed"
    /\ UNCHANGED <<cfg, prev_overrun, counter, disk, gf, f, readings, gps, gps_thread,
                   gps_ctl, fixes, handler, hpc, proc, exit_code, exc, iter,
                   obs>>

ReadGpsSpeed ==
    /\ MainRuns /\ pc = "gps_speed"
    /\ loc' = [loc EXCEPT !.gps_speed = SpeedKph(gps.speed)]
    /\ pc' = "write"
    /\ UNCHANGED <<cfg, prev_overrun, counter, disk, gf, f, readings, gps, gps_thread,
                   gps_ctl, fixes, handler, hpc, proc, exit_code, exc, iter,
                   obs>>

(* a row that stops after the position columns *)
Row_truncated ==
    [kind |-> "data", record |-> counter,
     gps_time |-> loc.gps_time, altitude |-> loc.gps_altitude,
     latitude |-> loc.gps_latitude, longitude |-> loc.gps_longitude,
     speed |-> loc.gps_speed,
     temperature |-> loc.dht22_temperature_calib]

(* the dict of lines 190-207 *)
Row ==
    [kind |-> "data", record |-> counter,
     gps_time |-> loc.gps_time, altitude |-> loc.gps_altitude,
     latitude |-> loc.gps_latitude, longitude |-> loc.gps_longitude,
     speed |-> loc.gps_speed,
     temperature |-> loc.dht22_temperature_calib,
     temperature_raw |-> loc.dht22_temperature_raw,
     rel_humidity |-> loc.dht22_humidity_calib,
     rel_humidity_raw |-> loc.dht22_humidity_raw,
     vapour_pressure |-> loc.dht22_vappress,
     pm10 |-> loc.pm10, pm2_5 |-> loc.pm2_5]

(* writerow called twice *)
WriteRow_twice ==
    /\ MainRuns /\ pc = "write"
    /\ readings' = [kind |-> "record", humidity |-> NaN,
                    temperature |-> Row.temperature]
    /\ f' = [f EXCEPT !.buf = Append(Append(f.buf, Row), Row)]
    /\ pc' = "close"
    /\ UNCHANGED <<cfg, prev_overrun, counter, disk, gf, loc, gps, gps_thread, gps_ctl,
                   fixes, handler, hpc, proc, exit_code, exc, iter, obs>>

(* readings = {...}; writer.writerow(readings): the row goes to f's buffer *)
WriteRow ==
    /\ MainRuns /\ pc = "write"
    /\ readings' = [kind |-> "record", humidity |-> NaN,
                    temperature |-> Row.temperature]
    /\ f' = [f EXCEPT !.buf = Append(f.buf, Row)]
    /\ pc' = "close"
    /\ UNCHANGED <<cfg, prev_overrun, counter, disk, gf, loc, gps, gps_thread, gps_ctl,
                   fixes, handler, hpc, proc, exit_code, exc, iter, obs>>

(* the close left out: the handle stays open with its buffer *)
CloseFile_skipped ==
    /\ MainRuns /\ pc = "close"
    /\ disk' = disk
    /\ f' = f
    /\ pc' = "finish"
    /\ UNCHANGED <<cfg, prev_overrun, counter, gf, readings, loc, gps, gps_thread, gps_ctl,
                   fixes, handler, hpc, proc, exit_code, exc, iter, obs>>

(* f.close(): the buffer reaches the file *)
CloseFile ==
    /\ MainRuns /\ pc = "close"
    /\ disk' = disk \o f.buf
    /\ f' = [state |-> "closed", buf |-> <<>>]
    /\ pc' = "finish"
    /\ UNCHANGED <<cfg, prev_overrun, counter, gf, readings, loc, gps, gps_thread, gps_ctl,
                   fixes, handler, hpc, proc, exit_code, exc, iter, obs>>

(* lines 213-219 and the argument of line 221.  The locals of the cycle   *)
(* body are all assigned again before they are read in the next iteration *)
(* (readings excepted, which is kept): they are forgotten here, and the   *)
(* three of this step when the sleep returns.                             *)
Finish ==
    /\ MainRuns /\ pc = "finish"
    /\ \E e \in 0..MaxElapsed :
          loc' = [NoLocals EXCEPT !.runtime = e,
                                  !.offset = Offset(e, cfg.sampling_rate),
                                  !.sleep_arg = SleepArg(e, cfg.sampling_rate)]
    /\ counter' = NextCounter(counter, obs.has_fix)
    /\ pc' = "sleep"
    /\ UNCHANGED <<cfg, prev_overrun, disk, gf, f, readings, gps, gps_thread, gps_ctl,
                   fixes, handler, hpc, proc, exit_code, exc, iter, obs>>

(* time.sleep(sampling_rate - offset) returns *)
Sleep ==
    /\ MainRuns /\ pc = "sleep"
    /\ pc' = "loop_top"
    /\ loc' = NoLocals
    /\ obs' = [NoObs EXCEPT !.nofix_iters = obs.nofix_iters]
    /\ prev_overrun' = IF prev_overrun = "untracked" THEN "untracked"
                       ELSE IF loc.runtime > cfg.sampling_rate THEN "yes"
                       ELSE "no"
    /\ UNCHANGED <<cfg, counter, disk, gf, f, readings, gps, gps_thread,
                   gps_ctl, fixes, handler, hpc, proc, exit_code, exc, iter>>

-----------------------------------------------------------------------------
(* The GPS thread (class GPS of FUN): while it runs it parses sentences    *)
(* and replaces the stored Fix and has_fix with the new values in one step *)

GpsPublish ==
    /\ proc = "running" /\ gps_thread = "running" /\ gps_ctl.running
    /\ fixes < MaxFix
    /\ \E hf \in BOOLEAN : gps' = Fix(fixes + 1, hf)
    /\ fixes' = fixes + 1
    /\ UNCHANGED <<pc, cfg, prev_overrun, counter, disk, gf, f, readings, loc, gps_thread,
                   gps_ctl, handler, hpc, proc, exit_code, exc, iter, obs>>

(* the thread leaves its loop once it was asked to stop *)
GpsExit ==
    /\ proc = "running" /\ gps_thread = "running"
    /\ gps_ctl.stop_requested
    /\ gps_thread' = "exited"
    /\ UNCHANGED <<pc, cfg, prev_overrun, counter, disk, gf, f, readings, loc, gps, gps_ctl,
                   fixes, handler, hpc, proc, exit_code, exc, iter, obs>>

-----------------------------------------------------------------------------
(* SIGTERM and exit_program, lines 107-117 *)

(* A SIGTERM is delivered between two steps of the main thread.  With the  *)
(* default disposition the process is killed at once (status 128 + 15).    *)
(* With exit_program installed the main thread runs the handler, which     *)
(* starts with gpsp.running = False; gpsp.stop() and then waits in join(). *)
SigTerm ==
    /\ MainRuns /\ pc # "crashed"
    /\ IF handler = "exit_program"
       THEN /\ hpc' = "h_join"
            /\ gps_ctl' = [running |-> FALSE, stop_requested |-> TRUE]
            /\ UNCHANGED <<proc, exit_code>>
       ELSE /\ proc' = "killed"
            /\ exit_code' = 128 + 15
            /\ UNCHANGED <<hpc, gps_ctl>>
    /\ UNCHANGED <<pc, cfg, prev_overrun, counter, disk, gf, f, readings, loc, gps,
                   gps_thread, fixes, handler, exc, iter, obs>>

(* f.close() of line 113 on the module-level name f: a NameError, which is *)
(* swallowed, when the header was not written by this run, else a second   *)
(* close of the header handle                                              *)
CloseGlobal(g) == IF g = "unbound" THEN "unbound" ELSE "closed"

(* gpsp.join() returns once the thread has ended; try: f.close() except:   *)
(* pass.  The f of exit_program is the module-level one (global f): the    *)
(* local f of main() is not touched.                                       *)
HandlerClose ==
    /\ proc = "running" /\ hpc = "h_join"
    /\ gps_thread = "exited"
    /\ gf' = CloseGlobal(gf)
    /\ hpc' = "h_exit"
    /\ UNCHANGED <<pc, cfg, prev_overrun, counter, disk, f, readings, loc, gps, gps_thread,
                   gps_ctl, fixes, handler, proc, exit_code, exc, iter, obs>>

(* exit(0): SystemExit unwinds main(), whose local file object is released *)
(* and flushes what it had buffered.                                       *)
HandlerExit ==
    /\ proc = "running" /\ hpc = "h_exit"
    /\ proc' = "exited"
    /\ exit_code' = 0
    /\ hpc' = "done"
    /\ IF f.state = "open"
       THEN disk' = disk \o f.buf /\ f' = [state |-> "closed", buf |-> <<>>]
       ELSE UNCHANGED <<disk, f>>
    /\ UNCHANGED <<pc, cfg, prev_overrun, counter, gf, readings, loc, gps, gps_thread,
                   gps_ctl, fixes, handler, exc, iter, obs>>

-----------------------------------------------------------------------------

Next ==
    \/ Bootstrap
    \/ StartGps
    \/ InitSensors
    \/ InstallHandler
    \/ LoopTop
    \/ ReadDht
    \/ CalibrateStep
    \/ ReadPm
    \/ ReadGpsTime
    \/ ReadGpsAltitude
    \/ ReadGpsLatitude
    \/ ReadGpsLongitude
    \/ ReadGpsSpeed
    \/ WriteRow
    \/ CloseFile
    \/ Finish
    \/ Sleep
    \/ GpsPublish
    \/ GpsExit
    \/ SigTerm
    \/ HandlerClose
    \/ HandlerExit

Spec == Init /\ [][Next]_vars

SpecHistory == InitHistory /\ [][Next]_vars

TypeOK ==
    /\ pc \in {"bootstrap", "start_gps", "init_sensors", "install_handler",
               "loop_top", "read_dht", "calibrate", "read_pm", "gps_time",
               "gps_altitude", "gps_latitude", "gps_longitude", "gps_speed",
               "write", "close", "finish", "sleep", "crashed"}
    /\ counter \in 1..(MaxCounter + 1)
    /\ f.state \in {"unbound", "open", "closed"}
    /\ gps_thread \in {"not_started", "running", "exited"}
    /\ hpc \in {"idle", "h_join", "h_exit", "done"}
    /\ proc \in {"running", "exited", "killed"}
    /\ exc \in {"none", "UnboundLocalError", "KeyError", "ReadPmError"}
    /\ fixes \in 0..MaxFix

-----------------------------------------------------------------------------
(* Properties *)

Min(a, b) == IF a < b THEN a ELSE b
Max(a, b) == IF a > b THEN a ELSE b

IsData(r) == r.kind = "data"

(* the records of the log file, in file order *)
DataRows == SelectSeq(disk, IsData)

(* the main thread is inside a loop iteration, after line 130 *)
InIteration ==
    pc \in {"read_dht", "calibrate", "read_pm", "gps_time", "gps_altitude",
            "gps_latitude", "gps_longitude", "gps_speed", "write", "close",
            "finish", "sleep", "crashed"}

(* C1: the first record of the log file has sequence id 1, however many    *)
(* iterations without a fix came before it.                                *)
C1_FirstRecordIsOne ==
    Len(DataRows) > 0 => DataRows[1].record = 1

(* C2: the counter goes up once per iteration, sensor failures included:   *)
(* when an iteration is about to start, after n iterations, the counter is *)
(* n + 1, and no sensor failure has ended the loop.                        *)
C2_CounterPerIteration ==
    /\ pc = "loop_top" => counter = iter + 1
    /\ (obs.dht_raised \/ obs.pm_raised) => (pc # "crashed" /\ exc = "none")

(* C3: an iteration that saw has_fix false neither opens the data file nor *)
(* writes a row: the file keeps the rows it had when the iteration began.  *)
C3_NoRecordWithoutFix ==
    (InIteration /\ ~obs.has_fix) =>
        /\ f.state # "open"
        /\ f.buf = <<>>
        /\ Len(disk) = obs.rows

(* a second or later iteration without a fix has run to its sleep, after a *)
(* record was written                                                      *)
C3_Witness ==
    /\ pc = "sleep" /\ ~obs.has_fix
    /\ iter >= 2 /\ Len(DataRows) >= 1
    /\ proc = "running" /\ hpc = "idle"

(* C4: when read_dht22 raises, the cycle still appends its record, with    *)
(* temperature, humidity and vapour pressure missing, and main() goes on.  *)
C4_DhtFailureTolerated ==
    obs.dht_raised =>
        /\ pc # "crashed" /\ exc = "none"
        /\ (pc \in {"finish", "sleep"} /\ hpc = "idle") =>
              /\ Len(DataRows) > 0
              /\ LET r == DataRows[Len(DataRows)]
                 IN  /\ IsNaN(r.temperature) /\ IsNaN(r.temperature_raw)
                     /\ IsNaN(r.rel_humidity) /\ IsNaN(r.rel_humidity_raw)
                     /\ r.vapour_pressure = <<NaN, NaN>>

(* C5: when read_pm raises, the cycle still appends its record, with pm10  *)
(* and pm2_5 missing, and the loop goes on.                                *)
C5_PmFailureTolerated ==
    obs.pm_raised =>
        /\ pc # "crashed" /\ exc = "none"
        /\ (pc \in {"finish", "sleep"} /\ hpc = "idle") =>
              /\ Len(DataRows) > 0
              /\ IsNaN(DataRows[Len(DataRows)].pm10)
              /\ IsNaN(DataRows[Len(DataRows)].pm2_5)

(* C6: no record has a calibrated relative humidity above 100.             *)
C6_HumidityAtMost100 ==
    \A i \in 1..Len(DataRows) : DataRows[i].rel_humidity <= 100000

(* C7: the position fields of every record are those of one single Fix.    *)
C7_NoTornPosition ==
    \A i \in 1..Len(DataRows) :
        \E n \in 1..MaxFix, hf \in BOOLEAN :
            PositionIn(DataRows[i]) = PositionOf(Fix(n, hf))

(* C8: the position written in a cycle is that of the Fix that was current *)
(* when the cycle's has_fix check passed.                                  *)
C8_PositionOfCheckedFix ==
    (pc = "close" /\ f.state = "open" /\ Len(f.buf) > 0) =>
        PositionIn(f.buf[Len(f.buf)]) = PositionOf(obs.fix)

(* C9: the sleep lasts max(0, period - min(elapsed, period)): never        *)
(* negative, period - elapsed up to the period, 0 beyond it.               *)
C9_SleepDuration ==
    pc = "sleep" =>
        LET p == cfg.sampling_rate
            e == loc.runtime
        IN  /\ loc.sleep_arg = Max(0, p - Min(e, p))
            /\ loc.sleep_arg >= 0
            /\ e <= p => loc.sleep_arg = p - e
            /\ e > p => loc.sleep_arg = 0
            /\ (p = 5 /\ e = 2) => loc.sleep_arg = 3
            /\ (p = 5 /\ e = 7) => loc.sleep_arg = 0

(* a cycle whose body overran the period is about to sleep for 0 seconds *)
C9_Witness ==
    /\ pc = "sleep" /\ proc = "running" /\ hpc = "idle"
    /\ cfg.sampling_rate = 5 /\ loc.runtime = 7 /\ loc.sleep_arg = 0

(* C10: once the position task was started, a termination signal ends the  *)
(* process only after the task was stopped and joined, with exit code 0.   *)
C10_StopsAndJoinsBeforeExit ==
    (proc # "running" /\ gps_thread # "not_started") =>
        /\ gps_thread = "exited"
        /\ proc = "exited"
        /\ exit_code = 0

(* C11: when the signal arrives while the cycle has the data file open,    *)
(* exit_program has closed that handle by the time it calls exit.          *)
C11_HandlerClosesCycleFile ==
    hpc = "h_exit" => f.state # "open"

(* the columns of a data row that the model keeps *)
RowFields ==
    {"kind", "record", "gps_time", "altitude", "latitude", "longitude",
     "speed", "temperature", "temperature_raw", "rel_humidity",
     "rel_humidity_raw", "vapour_pressure", "pm10", "pm2_5"}

(* C12: whatever the point of the cycle a termination signal arrives at,   *)
(* the log file holds only the header and whole rows, a cycle has put      *)
(* either its whole row or nothing into it, and nothing is left unwritten  *)
(* in an open handle once the process has exited.                          *)
C12_OnlyCompleteRows ==
    /\ \A i \in 1..Len(disk) :
          \/ disk[i] = Header
          \/ disk[i].kind = "data" /\ DOMAIN disk[i] = RowFields
    /\ InIteration => Len(disk) \in {obs.rows, obs.rows + 1}
    /\ proc = "exited" => (f.state # "open" /\ f.buf = <<>>)

(* the signal came between writerow and close: the process has exited and  *)
(* the row of the interrupted cycle is in the file                         *)
C12_Witness ==
    /\ proc = "exited" /\ pc = "close"
    /\ Len(disk) = obs.rows + 1
    /\ disk[Len(disk)].kind = "data"

IsPrefix(a, b) ==
    /\ Len(a) <= Len(b)
    /\ \A i \in 1..Len(a) : a[i] = b[i]

(* C13: once the bootstrap is done the log file is one header row followed *)
(* by data rows only, whether or not the file existed at start, and every  *)
(* step leaves the rows already in the file where and as they were.        *)
C13_OneHeaderAppendOnly ==
    /\ [](pc # "bootstrap" =>
            /\ Len(disk) >= 1
            /\ disk[1] = Header
            /\ \A i \in 2..Len(disk) : disk[i].kind = "data")
    /\ [][IsPrefix(disk, disk')]_vars

(* the file existed at start, so the header was not written by this run,   *)
(* and two cycles have appended their rows to it                           *)
C13_Witness ==
    /\ pc # "bootstrap" /\ gf = "unbound"
    /\ Len(disk) = 3
    /\ disk[2].kind = "data" /\ disk[3].kind = "data"

(* C14: an iteration puts at most one record into the file, and one that  *)
(* saw has_fix true and whose sensor reads succeeded has, when it comes to *)
(* measure its elapsed time, appended exactly one row through a handle     *)
(* that it opened and has closed again.                                    *)
C14_OneRecordPerIteration ==
    /\ InIteration => Len(disk) + Len(f.buf) <= obs.rows + 1
    /\ (pc \in {"finish", "sleep"} /\ obs.has_fix
           /\ ~obs.dht_raised /\ ~obs.pm_raised) =>
          /\ Len(disk) = obs.rows + 1
          /\ disk[Len(disk)].kind = "data"
          /\ f.state = "closed" /\ f.buf = <<>>

(* the second iteration had a fix and has appended its row *)
C14_Witness ==
    /\ pc = "sleep" /\ proc = "running" /\ hpc = "idle"
    /\ iter = 2 /\ obs.has_fix
    /\ Len(disk) = obs.rows + 1

(* the rows of the file and those waiting in the open handle *)
RowsWritten == DataRows \o f.buf

(* C15: with particulate monitoring off read_pm is never called and every  *)
(* record has pm10 and pm2_5 missing; with it on, read_pm is called once   *)
(* in a cycle that emits a record, after the temperature/humidity read and *)
(* before the row is written.                                              *)
C15_PmReadOnlyWhenEnabled ==
    /\ ~cfg.pm_status =>
          /\ obs.pm_calls = 0
          /\ \A i \in 1..Len(RowsWritten) :
                IsNaN(RowsWritten[i].pm10) /\ IsNaN(RowsWritten[i].pm2_5)
    /\ cfg.pm_status =>
          /\ pc \in {"read_dht", "calibrate", "read_pm"} => obs.pm_calls = 0
          /\ pc \in {"gps_time", "gps_altitude", "gps_latitude",
                     "gps_longitude", "gps_speed", "write", "close"}
                => obs.pm_calls = 1
          /\ (pc \in {"finish", "sleep"} /\ obs.has_fix) => obs.pm_calls = 1
          /\ (InIteration /\ ~obs.has_fix) => obs.pm_calls = 0

(* monitoring is on and the second cycle has written its row, with the     *)
(* values of its one read_pm call                                          *)
C15_Witness ==
    /\ cfg.pm_status /\ pc = "close" /\ proc = "running" /\ hpc = "idle"
    /\ iter = 2 /\ obs.pm_calls = 1
    /\ Len(f.buf) = 1 /\ f.buf[1].pm10 = 12 /\ f.buf[1].pm2_5 = 7

(* C16: from the start of a cycle to the start of the next there is the    *)
(* body's elapsed time and then the sleep: together never less than the    *)
(* period, the period when the body took at most the period and the body's *)
(* time when it overran; the cycle that follows an overrun sleeps what is  *)
(* left of its own period and no less.                                     *)
C16_CycleLength ==
    pc = "sleep" =>
        LET p == cfg.sampling_rate
            e == loc.runtime
            length == e + loc.sleep_arg
        IN  /\ length >= p
            /\ e <= p => length = p
            /\ e > p => length = e
            /\ (prev_overrun = "yes" /\ e <= p) => loc.sleep_arg = p - e

(* the cycle before overran the period; this one took 2 s of 5 and is      *)
(* about to sleep the 3 s left                                             *)
C16_Witness ==
    /\ pc = "sleep" /\ proc = "running" /\ hpc = "idle"
    /\ prev_overrun = "yes"
    /\ cfg.sampling_rate = 5 /\ loc.runtime = 2 /\ loc.sleep_arg = 3

(* C17: the sequence ids of the records of the log file are strictly      *)
(* increasing in file order, also when has_fix was lost and came back.     *)
C17_IdsStrictlyIncreasing ==
    \A i, j \in 1..Len(DataRows) :
        i < j => DataRows[i].record < DataRows[j].record

(* has_fix went from true to false and back: records 1 and 3 are in the    *)
(* file, the second iteration has written none                             *)
C17_Witness ==
    /\ Len(DataRows) = 2
    /\ DataRows[1].record = 1 /\ DataRows[2].record = 3
    /\ 2 \in obs.nofix_iters

(* the iterations without a fix whose index is strictly between a and b *)
NoFixBetween(a, b) == {k \in obs.nofix_iters : a < k /\ k < b}

(* C18: the id of a record is the 1-based index of the iteration that      *)
(* wrote it, the iterations without a fix counted in: such an iteration    *)
(* uses up an id, and the ids of two consecutive records differ by one     *)
(* plus the number of iterations without a fix between them.               *)
C18_IdIsIterationIndex ==
    /\ (pc = "close" /\ Len(f.buf) > 0) => f.buf[Len(f.buf)].record = iter
    /\ \A i \in 1..Len(RowsWritten) :
          /\ RowsWritten[i].record \in 1..iter
          /\ RowsWritten[i].record \notin obs.nofix_iters
    /\ \A i \in 1..(Len(DataRows) - 1) :
          DataRows[i + 1].record - DataRows[i].record
             = 1 + Cardinality(NoFixBetween(DataRows[i].record,
                                            DataRows[i + 1].record))
    /\ (pc = "sleep" /\ ~obs.has_fix) =>
          /\ iter \in obs.nofix_iters
          /\ counter = iter + 1
          /\ Len(disk) = obs.rows

(* the first iteration had no fix and used up id 1: the two records of the *)
(* file are numbered 2 and 3                                               *)
C18_Witness ==
    /\ obs.nofix_iters = {1}
    /\ Len(DataRows) = 2
    /\ DataRows[1].record = 2 /\ DataRows[2].record = 3

(* the handles on the log file that are open: the module-level f of the   *)
(* bootstrap and the local f of main()                                     *)
OpenHandles ==
    (IF gf = "open" THEN 1 ELSE 0) + (IF f.state = "open" THEN 1 ELSE 0)

(* C19: never more than one handle on the log file is open, and when the   *)
(* cycle measures its elapsed time and while it sleeps none is: the handle *)
(* the body opened has been closed and has nothing left to write.          *)
C19_NoHandleOpenWhileSleeping ==
    /\ OpenHandles <= 1
    /\ pc \in {"finish", "sleep"} => (OpenHandles = 0 /\ f.buf = <<>>)

(* the third cycle opened the file, wrote its row and is about to sleep,   *)
(* the handle closed                                                       *)
C19_Witness ==
    /\ pc = "sleep" /\ proc = "running" /\ hpc = "idle"
    /\ iter = 3 /\ obs.has_fix
    /\ f.state = "closed" /\ Len(disk) = obs.rows + 1

=============================================================================
